---- MODULE Spec2Model ----
(***************************************************************************)
(* scripts/unrelease-cli.py: remove one version from cli-releases.json,    *)
(* recompute "latest" when it pointed at the removed version, stamp        *)
(* updated_at and rewrite the file.                                        *)
(*                                                                         *)
(* A version string is a sequence of one-character strings, so that        *)
(* str.split('.') and int() are computed and not assumed.  The manifest    *)
(* file is its parsed document together with its length in bytes: the      *)
(* length decides what a second writer's bytes leave behind.               *)
(***************************************************************************)
EXTENDS Integers, Sequences, FiniteSets, TLC

\* ------------------------------------------------------------------ bounds
MaxReleases == 3
MaxArgs == 2
MaxClock == 2

\* ---------------------------------------------------------- version strings
Digits == {"0", "1", "2", "3", "4", "5", "6", "7", "8", "9"}

V200  == <<"2", ".", "0", ".", "0">>
V190  == <<"1", ".", "9", ".", "0">>
V1100 == <<"1", ".", "1", "0", ".", "0">>
V10   == <<"1", ".", "0">>
V010  == <<"0", "1", ".", "0">>
V000  == <<"0", ".", "0", ".", "0">>
Vabc  == <<"a", "b", "c">>
V1a   == <<"1", ".", "a">>

\* the version strings manifests and arguments are drawn from
Versions == {V200, V190, V1100, V10, V010, V000, Vabc, V1a}
\* the version strings of the two-instance runs
ConcVersions == {V10, V1100, V190, Vabc}

DigitVal(c) ==
    CASE c = "0" -> 0 [] c = "1" -> 1 [] c = "2" -> 2 [] c = "3" -> 3
      [] c = "4" -> 4 [] c = "5" -> 5 [] c = "6" -> 6 [] c = "7" -> 7
      [] c = "8" -> 8 [] c = "9" -> 9

\* v.split('.'): the components between the dots; never an empty list
RECURSIVE split(_)
split(s) ==
    IF \A i \in 1..Len(s) : s[i] # "."
    THEN <<s>>
    ELSE LET i == CHOOSE k \in 1..Len(s) :
                      s[k] = "." /\ \A j \in 1..(k-1) : s[j] # "."
         IN  <<SubSeq(s, 1, i-1)>> \o split(SubSeq(s, i+1, Len(s)))

\* the digits of an int() literal, after its optional sign
IntBody(x) ==
    IF x # <<>> /\ x[1] \in {"-", "+"} THEN SubSeq(x, 2, Len(x)) ELSE x

\* int(x) returns (TRUE) or raises ValueError (FALSE): an optional sign and
\* at least one decimal digit
IntOk(x) ==
    /\ IntBody(x) # <<>>
    /\ \A i \in 1..Len(IntBody(x)) : IntBody(x)[i] \in Digits

RECURSIVE DecVal(_)
DecVal(d) ==
    IF d = <<>> THEN 0
    ELSE 10 * DecVal(SubSeq(d, 1, Len(d)-1)) + DigitVal(d[Len(d)])

\* the value of int(x) when it returns
IntVal(x) ==
    IF x[1] = "-" THEN 0 - DecVal(IntBody(x)) ELSE DecVal(IntBody(x))

FallbackKey == <<0, 0, 0>>

version_key_high(v) ==
    LET parts == split(v) IN
    IF \A i \in 1..Len(parts) : IntOk(parts[i])
    THEN [i \in 1..Len(parts) |-> IntVal(parts[i])]
    ELSE <<9, 9, 9>>

\* version_key: the tuple of the integer components, (0,0,0) when any
\* component is no integer
version_key(v) ==
    LET parts == split(v) IN
    IF \A i \in 1..Len(parts) : IntOk(parts[i])
    THEN [i \in 1..Len(parts) |-> IntVal(parts[i])]
    ELSE FallbackKey

Min2(a, b) == IF a < b THEN a ELSE b

\* Python's < on tuples of integers: the first differing component decides,
\* a proper prefix is smaller
TupleLess(a, b) ==
    \/ \E i \in 1..Min2(Len(a), Len(b)) :
          /\ \A j \in 1..(i-1) : a[j] = b[j]
          /\ a[i] < b[i]
    \/ /\ Len(a) < Len(b)
       /\ \A j \in 1..Len(a) : a[j] = b[j]

\* an insertion that puts x before the elements equal to it
InsertBeforeEqual(t, x) ==
    LET ge == {i \in 1..Len(t) : ~TupleLess(version_key(t[i]), version_key(x))}
        pos == IF ge = {} THEN Len(t) + 1
               ELSE CHOOSE i \in ge : \A j \in ge : i <= j
    IN  SubSeq(t, 1, pos-1) \o <<x>> \o SubSeq(t, pos, Len(t))

\* insertion of x into an ascending list, after every element that is not
\* greater than it
InsertByKey(t, x) ==
    LET gt == {i \in 1..Len(t) : TupleLess(version_key(x), version_key(t[i]))}
        pos == IF gt = {} THEN Len(t) + 1
               ELSE CHOOSE i \in gt : \A j \in gt : i <= j
    IN  SubSeq(t, 1, pos-1) \o <<x>> \o SubSeq(t, pos, Len(t))

\* list.sort(key=version_key): ascending and stable
RECURSIVE SortByKey(_)
SortByKey(s) ==
    IF s = <<>> THEN <<>>
    ELSE InsertByKey(SortByKey(SubSeq(s, 1, Len(s)-1)), s[Len(s)])

\* ------------------------------------------------------------ the manifest
\* A JSON field that may be missing, null or a string
Absent == [tag |-> "absent", val |-> <<>>]
Null   == [tag |-> "null", val |-> <<>>]
Str(v) == [tag |-> "str", val |-> v]

\* The releases field: missing, null, or a mapping kept in key order
NoReleases   == [tag |-> "absent", entries |-> <<>>]
NullReleases == [tag |-> "null", entries |-> <<>>]
Map(es)      == [tag |-> "map", entries |-> es]

Keys(es) == [i \in 1..Len(es) |-> es[i].key]
KeySet(es) == {es[i].key : i \in 1..Len(es)}

\* the placeholder document of a file that holds no document
NoDoc == [latest |-> Absent, releases |-> NoReleases, updated_at |-> 0]

\* the sequences of n distinct elements of U
Distinct(U, n) ==
    {s \in [1..n -> U] : \A i, j \in 1..n : i # j => s[i] # s[j]}

\* the mappings of at most n keys of U; the i-th entry's metadata is i
ReleaseVals(U, n) ==
    {NoReleases, NullReleases} \cup
    UNION {{Map([i \in 1..k |-> [key |-> s[i], meta |-> i]]) :
               s \in Distinct(U, k)} : k \in 0..n}

LatestVals(U) == {Absent, Null} \cup {Str(v) : v \in U}

Manifests(U, n) ==
    {[latest |-> l, releases |-> r, updated_at |-> 0] :
        l \in LatestVals(U), r \in ReleaseVals(U, n)}

\* ------------------------------------------------- json.dump(data, indent=2)
RECURSIVE SumLen(_)
SumLen(es) ==
    IF es = <<>> THEN 0
    ELSE SumLen(SubSeq(es, 1, Len(es)-1)) + 4 + (Len(es[Len(es)].key) + 2) + 2 + 1

OptSize(x) == IF x.tag = "str" THEN Len(x.val) + 2 ELSE 4

ReleasesSize(r) ==
    IF r.tag = "null" THEN 4
    ELSE IF r.entries = <<>> THEN 2
    ELSE 2 + SumLen(r.entries) + 2 * (Len(r.entries) - 1) + 4

\* the number of bytes json.dump and the newline write for a document: one
\* line per field present, updated_at a 20-character timestamp
Size(d) ==
    LET nf == 1 + (IF d.latest.tag = "absent" THEN 0 ELSE 1)
                + (IF d.releases.tag = "absent" THEN 0 ELSE 1)
    IN  2 + (IF d.latest.tag = "absent" THEN 0 ELSE 2 + 10 + OptSize(d.latest))
          + (IF d.releases.tag = "absent" THEN 0 ELSE 2 + 12 + ReleasesSize(d.releases))
          + (2 + 14 + 22)
          + 2 * (nf - 1) + 2 + 1

\* the file: missing, a JSON document ("doc"), or bytes that are no JSON
\* document ("bad": empty, cut short, or a document followed by the tail of
\* a longer one)
Missing    == [kind |-> "missing", len |-> 0, doc |-> NoDoc]
Bad(n)     == [kind |-> "bad", len |-> n, doc |-> NoDoc]
Doc(d, n)  == [kind |-> "doc", len |-> n, doc |-> d]
DocFile(d) == Doc(d, Size(d))

\* ------------------------------------------------------------------ state
Procs == {1, 2}

VARIABLES
    file,               \* cli-releases.json on disk
    file0,              \* the file as it was before any run started
    now,                \* the UTC clock, in seconds
    lastWriter,         \* the instance whose write completed last, 0 if none
    pc,                 \* each instance's position in main()
    argv,               \* sys.argv[1:] of each instance
    version_to_remove,  \* sys.argv[1]
    data,               \* each instance's in-memory manifest
    out,                \* what each instance printed, in order
    status,             \* each instance's exit status, -1 while it runs
    opened              \* the modes each instance called open() with

vars == <<file, file0, now, lastWriter, pc, argv, version_to_remove, data,
          out, status, opened>>

Line(stream, msg, arg) == [stream |-> stream, msg |-> msg, arg |-> arg]
Usage        == Line("stderr", "usage", <<>>)
Traceback    == Line("stderr", "traceback", <<>>)
NotFound(v)  == Line("stderr", "not found", v)
Updated(v)   == Line("stdout", "updated latest", v)
NoOthers     == Line("stdout", "warning: no other versions", <<>>)
Removed(v)   == Line("stdout", "removed", v)
Confirmed    == Line("stdout", "manifest updated", <<>>)

\* the argument lists: none, one version, or a version and further arguments
ExtraArg == V10
ArgvSet(U) ==
    {<<>>} \cup {<<v>> : v \in U}
           \cup {[i \in 1..n |-> ExtraArg] : n \in 2..MaxArgs}

\* the instances in `running` are started with an argument list of A each,
\* against a file that is missing, holds no JSON, or holds a manifest of F
InitWith(F, running, A) ==
    /\ file \in {Missing, Bad(0), Bad(1)} \cup {DocFile(d) : d \in F}
    /\ file0 = file
    /\ now = 1
    /\ lastWriter = 0
    /\ pc = [p \in Procs |-> IF p \in running THEN "start" ELSE "absent"]
    /\ argv \in {a \in [Procs -> A] : \A p \in Procs \ running : a[p] = <<>>}
    /\ version_to_remove = [p \in Procs |-> <<>>]
    /\ data = [p \in Procs |-> NoDoc]
    /\ out = [p \in Procs |-> <<>>]
    /\ status = [p \in Procs |-> -1]
    /\ opened = [p \in Procs |-> {}]

\* one instance, any argument list, any manifest
Init == InitWith(Manifests(Versions, MaxReleases), {1}, ArgvSet(Versions))

\* two instances with one argument each
InitConc ==
    InitWith(Manifests(ConcVersions, MaxReleases), Procs,
             {<<v>> : v \in ConcVersions})

\* sys.exit(code), or an uncaught exception (code 1 after a traceback)
Exit(p, code, lines) ==
    /\ pc' = [pc EXCEPT ![p] = "done"]
    /\ status' = [status EXCEPT ![p] = code]
    /\ out' = [out EXCEPT ![p] = out[p] \o lines]

Goto(p, label) == pc' = [pc EXCEPT ![p] = label]

\* ----------------------------------------------------------------- main()
\* the argument count tested with < 2
CheckArgsAtLeast(p) ==
    /\ pc[p] = "start"
    /\ IF Len(argv[p]) + 1 < 2
       THEN /\ Exit(p, 1, <<Usage>>)
            /\ UNCHANGED version_to_remove
       ELSE /\ version_to_remove' = [version_to_remove EXCEPT ![p] = argv[p][1]]
            /\ Goto(p, "read")
            /\ UNCHANGED <<out, status>>
    /\ UNCHANGED <<file, file0, now, lastWriter, argv, data, opened>>

\* lines 10-14: the argument count
CheckArgs(p) ==
    /\ pc[p] = "start"
    /\ IF Len(argv[p]) + 1 # 2
       THEN /\ Exit(p, 1, <<Usage>>)
            /\ UNCHANGED version_to_remove
       ELSE /\ version_to_remove' = [version_to_remove EXCEPT ![p] = argv[p][1]]
            /\ Goto(p, "read")
            /\ UNCHANGED <<out, status>>
    /\ UNCHANGED <<file, file0, now, lastWriter, argv, data, opened>>

\* lines 16-17: open(..., 'r') and json.load; a missing file or bytes that
\* are no JSON document raise
Read(p) ==
    /\ pc[p] = "read"
    /\ opened' = [opened EXCEPT ![p] = opened[p] \cup {"r"}]
    /\ IF file.kind = "doc"
       THEN /\ data' = [data EXCEPT ![p] = file.doc]
            /\ Goto(p, "check")
            /\ UNCHANGED <<out, status>>
       ELSE /\ Exit(p, 1, <<Traceback>>)
            /\ UNCHANGED data
    /\ UNCHANGED <<file, file0, now, lastWriter, argv, version_to_remove>>

\* the error reported without the exit: the run goes on to stamp and write
CheckNoExit(p) ==
    /\ pc[p] = "check"
    /\ LET r == data[p].releases IN
       IF r.tag = "null"
       THEN Exit(p, 1, <<Traceback>>)
       ELSE IF version_to_remove[p] \notin KeySet(r.entries)
       THEN /\ out' = [out EXCEPT ![p] = out[p] \o <<NotFound(version_to_remove[p])>>]
            /\ Goto(p, "stamp")
            /\ UNCHANGED status
       ELSE Goto(p, "latest") /\ UNCHANGED <<out, status>>
    /\ UNCHANGED <<file, file0, now, lastWriter, argv, version_to_remove, data,
                   opened>>

\* lines 19-22: version_to_remove not in data.get('releases', {}); a null
\* releases raises TypeError
Check(p) ==
    /\ pc[p] = "check"
    /\ LET r == data[p].releases IN
       IF r.tag = "null"
       THEN Exit(p, 1, <<Traceback>>)
       ELSE IF version_to_remove[p] \notin KeySet(r.entries)
       THEN Exit(p, 1, <<NotFound(version_to_remove[p])>>)
       ELSE Goto(p, "latest") /\ UNCHANGED <<out, status>>
    /\ UNCHANGED <<file, file0, now, lastWriter, argv, version_to_remove, data,
                   opened>>

\* every key, the removed one included
RemainingAll(es, v) == Keys(es)

\* line 27: the keys other than v, in the mapping's order
Remaining(es, v) == SelectSeq(Keys(es), LAMBDA k : k # v)

\* the first key after the sort
NewLatestFirst(remaining) ==
    LET sorted == SortByKey(remaining) IN sorted[1]

\* lines 34-35: the last key after the stable ascending sort
NewLatest(remaining) ==
    LET sorted == SortByKey(remaining) IN sorted[Len(sorted)]

\* lines 24-38: recompute latest when it names the removed version
UpdateLatest(p) ==
    /\ pc[p] = "latest"
    /\ LET v == version_to_remove[p]
           remaining == Remaining(data[p].releases.entries, v)
       IN  IF data[p].latest = Str(v)
           THEN IF remaining # <<>>
                THEN /\ data' = [data EXCEPT ![p].latest = Str(NewLatest(remaining))]
                     /\ out' = [out EXCEPT ![p] =
                                   out[p] \o <<Updated(NewLatest(remaining))>>]
                ELSE /\ out' = [out EXCEPT ![p] = out[p] \o <<NoOthers>>]
                     /\ UNCHANGED data
           ELSE UNCHANGED <<data, out>>
    /\ Goto(p, "remove")
    /\ UNCHANGED <<file, file0, now, lastWriter, argv, version_to_remove, status,
                   opened>>

\* the filter inverted: only the removed entry is kept
DeleteOthers(es, v) == SelectSeq(es, LAMBDA e : e.key = v)

\* del releases[v]
Delete(es, v) == SelectSeq(es, LAMBDA e : e.key # v)

\* lines 40-42: del data['releases'][version_to_remove]
Remove(p) ==
    /\ pc[p] = "remove"
    /\ data' = [data EXCEPT ![p].releases =
                   Map(Delete(data[p].releases.entries, version_to_remove[p]))]
    /\ out' = [out EXCEPT ![p] = out[p] \o <<Removed(version_to_remove[p])>>]
    /\ Goto(p, "stamp")
    /\ UNCHANGED <<file, file0, now, lastWriter, argv, version_to_remove, status,
                   opened>>

\* the clock read but updated_at left as it was
StampKept(p) ==
    /\ pc[p] = "stamp"
    /\ \E t \in now..MaxClock : now' = t
    /\ Goto(p, "openw")
    /\ UNCHANGED <<file, file0, lastWriter, argv, version_to_remove, data, out,
                   status, opened>>

\* lines 44-45: updated_at becomes the clock's reading, which never runs
\* backwards
Stamp(p) ==
    /\ pc[p] = "stamp"
    /\ \E t \in now..MaxClock :
          /\ now' = t
          /\ data' = [data EXCEPT ![p].updated_at = t]
    /\ Goto(p, "openw")
    /\ UNCHANGED <<file, file0, lastWriter, argv, version_to_remove, out, status,
                   opened>>

\* the file opened without truncation
OpenWriteNoTrunc(p) ==
    /\ pc[p] = "openw"
    /\ file' = IF file.kind = "missing" THEN Bad(0) ELSE file
    /\ opened' = [opened EXCEPT ![p] = opened[p] \cup {"w"}]
    /\ Goto(p, "dump")
    /\ UNCHANGED <<file0, now, lastWriter, argv, version_to_remove, data, out,
                   status>>

\* line 47: open(..., 'w') creates the file or truncates it to no bytes
OpenWrite(p) ==
    /\ pc[p] = "openw"
    /\ file' = Bad(0)
    /\ opened' = [opened EXCEPT ![p] = opened[p] \cup {"w"}]
    /\ Goto(p, "dump")
    /\ UNCHANGED <<file0, now, lastWriter, argv, version_to_remove, data, out,
                   status>>

\* a write that backs off when the file already holds a document
OverwriteUnlessDoc(f, d, n) ==
    IF n = 0 \/ f.kind = "doc" THEN f
    ELSE IF f.len > n THEN Bad(f.len)
    ELSE IF n >= Size(d) - 1 THEN Doc(d, n)
    ELSE Bad(n)

\* n bytes of document d written at offset 0 of a file f: what lies beyond
\* them stays.  All of d over a longer file leaves d followed by the tail of
\* the old bytes, which is no JSON document; all of d but its final newline
\* is still d; a shorter prefix is no document.
Overwrite(f, d, n) ==
    IF n = 0 THEN f
    ELSE IF f.len > n THEN Bad(f.len)
    ELSE IF n >= Size(d) - 1 THEN Doc(d, n)
    ELSE Bad(n)

\* lines 48-49 and the close: the buffered document and newline reach the
\* file in one write
Dump(p) ==
    /\ pc[p] = "dump"
    /\ file' = Overwrite(file, data[p], Size(data[p]))
    /\ lastWriter' = p
    /\ Goto(p, "final")
    /\ UNCHANGED <<file0, now, argv, version_to_remove, data, out, status, opened>>

\* the prefix lengths a failed write is taken to leave behind
MaxPartial == 1
PartialLens(size) == {n \in 0..(size-1) : n <= MaxPartial \/ n = size - 1}

\* lines 47-49 failing (disk full, I/O error, kill) once the file is open for
\* writing: a prefix of the document is on disk and the exception is not
\* caught
WriteFail(p) ==
    /\ pc[p] = "dump"
    /\ \E n \in PartialLens(Size(data[p])) : file' = Overwrite(file, data[p], n)
    /\ Exit(p, 1, <<Traceback>>)
    /\ UNCHANGED <<file0, now, lastWriter, argv, version_to_remove, data, opened>>

\* line 51 and the return from main(): exit status 0
Final(p) ==
    /\ pc[p] = "final"
    /\ Exit(p, 0, <<Confirmed>>)
    /\ UNCHANGED <<file, file0, now, lastWriter, argv, version_to_remove, data,
                   opened>>

Step(p) ==
    \/ CheckArgs(p)
    \/ Read(p)
    \/ Check(p)
    \/ UpdateLatest(p)
    \/ Remove(p)
    \/ Stamp(p)
    \/ OpenWrite(p)
    \/ Dump(p)
    \/ Final(p)

\* one instance at a time, with write failures
Next == \E p \in Procs : Step(p) \/ WriteFail(p)

Spec == Init /\ [][Next]_vars

\* two instances interleaved, every write succeeding
NextConc == \E p \in Procs : Step(p)

SpecConc == InitConc /\ [][NextConc]_vars

\* ------------------------------------------------------------- properties
Range(q) == {q[i] : i \in 1..Len(q)}

\* the single argument of an instance started with exactly one
Target(p) == argv[p][1]

\* the releases entries of the manifest the run started from
Entries0 == file0.doc.releases.entries

\* instance p was asked to remove a key of the manifest's releases
HasTarget(p) ==
    /\ Len(argv[p]) = 1
    /\ file0.kind = "doc"
    /\ file0.doc.releases.tag = "map"
    /\ Target(p) \in KeySet(Entries0)

\* the keys other than p's target, as a set and in the manifest's order
Others(p) == KeySet(Entries0) \ {Target(p)}
OthersInOrder(p) == SelectSeq(Keys(Entries0), LAMBDA k : k # Target(p))

Succeeded(p) == pc[p] = "done" /\ status[p] = 0

\* p died in the write step: after open(..., 'w'), with status 1
WriteFailed(p) == pc[p] = "done" /\ status[p] = 1 /\ "w" \in opened[p]

\* p finished a run in which latest named its target and other keys remained
Recomputed(p) ==
    /\ Succeeded(p)
    /\ HasTarget(p)
    /\ file0.doc.latest = Str(Target(p))
    /\ Others(p) # {}

\* every component of v is an int() literal
IsNumeric(v) == \A i \in 1..Len(split(v)) : IntOk(split(v)[i])

KeyOf(v) == version_key(v)

\* C1: a run whose target V is a key of releases and is not latest (latest
\* absent and null included) ends with status 0 unless the write itself
\* fails, and then the written manifest lacks V, keeps every other entry
\* with its metadata, and keeps latest.
C1_RemovalFrame ==
    \A p \in Procs :
        (pc[p] = "done" /\ HasTarget(p) /\ file0.doc.latest # Str(Target(p))) =>
            /\ Succeeded(p) \/ WriteFailed(p)
            /\ Succeeded(p) =>
                  /\ file.kind = "doc"
                  /\ file.doc.releases.tag = "map"
                  /\ Target(p) \notin KeySet(file.doc.releases.entries)
                  /\ Range(file.doc.releases.entries) =
                        {e \in Range(Entries0) : e.key # Target(p)}
                  /\ Len(file.doc.releases.entries) = Len(Entries0) - 1
                  /\ file.doc.latest = file0.doc.latest

C1_Witness ==
    \E p \in Procs :
        /\ Succeeded(p) /\ HasTarget(p)
        /\ file0.doc.latest \in {Null, Str(V190)}
        /\ Target(p) = V200
        /\ Len(Entries0) = 3
        /\ Len(file.doc.releases.entries) = 2

V100 == <<"1", ".", "0", ".", "0">>
V120 == <<"1", ".", "2", ".", "0">>
V115 == <<"1", ".", "1", ".", "5">>

\* C2: when latest named the removed version and other versions remain, the
\* new latest is a remaining version whose numeric tuple key no remaining
\* version's key exceeds; of 1.0.0, 1.2.0 and 1.1.5 in any order it is
\* 1.2.0, and removing 2.0.0 from {2.0.0, 1.9.0} leaves latest 1.9.0.
C2_Example == \A q \in Distinct({V100, V120, V115}, 3) : NewLatest(q) = V120

C2_LatestIsMax ==
    /\ C2_Example
    /\ \A p \in Procs :
          Recomputed(p) =>
              /\ file.kind = "doc"
              /\ file.doc.latest.tag = "str"
              /\ file.doc.latest.val \in Others(p)
              /\ \A r \in Others(p) :
                    ~TupleLess(KeyOf(file.doc.latest.val), KeyOf(r))
              /\ (Target(p) = V200 /\ Others(p) = {V190}) =>
                    file.doc.latest = Str(V190)

C2_Witness ==
    \E p \in Procs :
        /\ Recomputed(p)
        /\ Target(p) = V190
        /\ Others(p) = {V10, V1100}
        /\ file.doc.latest = Str(V1100)

\* C3 as stated: a version that is not dot-separated integers is chosen as
\* the new latest only when it is the only remaining key.
C3_NonNumericOnlyIfAlone ==
    \A p \in Procs :
        (Recomputed(p) /\ ~IsNumeric(file.doc.latest.val)) =>
            Cardinality(Others(p)) = 1

\* C3 amended: a version that is not dot-separated integers has the key
\* (0,0,0), and is chosen as the new latest only when no remaining
\* dot-separated-integer version has a key above (0,0,0).
C3_FallbackKeys == \A v \in Versions : ~IsNumeric(v) => KeyOf(v) = <<0, 0, 0>>

C3_NonNumericNeverAboveZero ==
    /\ C3_FallbackKeys
    /\ \A p \in Procs :
          (Recomputed(p) /\ ~IsNumeric(file.doc.latest.val)) =>
              \A r \in Others(p) :
                  IsNumeric(r) => ~TupleLess(<<0, 0, 0>>, KeyOf(r))

C3_Witness ==
    \E p \in Procs :
        /\ Recomputed(p)
        /\ Target(p) = V200
        /\ Others(p) = {Vabc, V10}
        /\ file.doc.latest = Str(V10)

\* what the manifest's latest names is a key of its releases, when it is set
LatestResolves(d) ==
    d.latest.tag = "str" => d.latest.val \in KeySet(d.releases.entries)

\* C4 as stated: after every successful run the written latest, if set,
\* names a key of the written releases, and is not set when releases is
\* empty.
C4_LatestAlwaysResolves ==
    \A p \in Procs :
        Succeeded(p) =>
            /\ LatestResolves(file.doc)
            /\ file.doc.releases.entries = <<>> => file.doc.latest.tag # "str"

\* C4 amended: after every successful run on a manifest whose latest, if
\* set, named a key of releases, the written latest, if set, names a key of
\* the written releases unless the written releases is empty; when the run
\* removed the last release, latest is left as it was and not made absent.
C4_LatestResolvesUnlessEmptied ==
    \A p \in Procs :
        (Succeeded(p) /\ LatestResolves(file0.doc)) =>
            /\ file.doc.releases.entries # <<>> => LatestResolves(file.doc)
            /\ file.doc.releases.entries = <<>> =>
                  file.doc.latest = file0.doc.latest

C4_Witness ==
    \E p \in Procs :
        /\ Recomputed(p)
        /\ LatestResolves(file0.doc)
        /\ Cardinality(Others(p)) = 2
        /\ file.doc.latest # file0.doc.latest
        /\ LatestResolves(file.doc)

\* instance p was asked to remove what is no key of releases, a manifest
\* with no releases field counting as one with no keys
TargetMissing(p) ==
    /\ Len(argv[p]) = 1
    /\ file0.kind = "doc"
    /\ file0.doc.releases.tag \in {"absent", "map"}
    /\ Target(p) \notin KeySet(Entries0)

\* C5: a run whose target is no key of releases prints the not-found error,
\* exits with status 1, never opens the file for writing, and leaves the
\* file, updated_at included, as it was.
C5_NotFoundLeavesFile ==
    \A p \in Procs :
        TargetMissing(p) =>
            /\ "w" \notin opened[p]
            /\ file = file0
            /\ pc[p] \in {"start", "read", "check", "done"}
            /\ pc[p] = "done" =>
                  /\ status[p] = 1
                  /\ out[p] = <<NotFound(Target(p))>>

C5_Witness ==
    \E p \in Procs :
        /\ TargetMissing(p)
        /\ pc[p] = "done"
        /\ file0.doc.releases.tag = "absent"
        /\ file0.doc.latest = Str(Target(p))

\* the run started from a manifest whose only release is p's target, which
\* latest names
SoleLatest(p) ==
    /\ HasTarget(p)
    /\ Keys(Entries0) = <<Target(p)>>
    /\ file0.doc.latest = Str(Target(p))

\* C6: removing the only release when latest names it ends with status 0
\* unless the write itself fails, and then the written releases is the
\* empty mapping, latest still names the removed version, the warning was
\* printed, and updated_at is the clock's reading.
C6_SoleReleaseStale ==
    \A p \in Procs :
        (pc[p] = "done" /\ SoleLatest(p)) =>
            /\ Succeeded(p) \/ WriteFailed(p)
            /\ Succeeded(p) =>
                  /\ file.kind = "doc"
                  /\ file.doc.releases = Map(<<>>)
                  /\ file.doc.latest = Str(Target(p))
                  /\ out[p] = <<NoOthers, Removed(Target(p)), Confirmed>>
                  /\ file.doc.updated_at = now
                  /\ file.doc.updated_at > file0.doc.updated_at

C6_Witness ==
    \E p \in Procs :
        /\ Succeeded(p)
        /\ SoleLatest(p)
        /\ Target(p) = Vabc
        /\ file.doc.updated_at = MaxClock

\* C7: a run with no argument or with two or more prints the usage line and
\* exits with status 1, and never opens the file, for reading or writing.
C7_ArityNoFileAccess ==
    \A p \in Procs :
        (pc[p] # "absent" /\ Len(argv[p]) # 1) =>
            /\ opened[p] = {}
            /\ file = file0
            /\ pc[p] \in {"start", "done"}
            /\ pc[p] = "done" => status[p] = 1 /\ out[p] = <<Usage>>

C7_Witness ==
    \E p \in Procs :
        /\ pc[p] = "done"
        /\ Len(argv[p]) = MaxArgs
        /\ file0.kind = "doc"

\* C8: an instance overwrites the file with its own copy whatever the other
\* wrote meanwhile: a file that parses after a write completed holds the
\* last writer's in-memory manifest.
C8_LastWriterWins ==
    lastWriter # 0 =>
        /\ file.kind # "missing"
        /\ file.kind = "doc" => file.doc = data[lastWriter]

\* both instances removed different versions and exited with status 0, and
\* the file is the last writer's copy, still holding the version the other
\* removed
C8_Witness ==
    \E p, q \in Procs :
        /\ p # q
        /\ Succeeded(p) /\ Succeeded(q)
        /\ Target(p) # Target(q)
        /\ lastWriter = q
        /\ file = DocFile(data[q])
        /\ Target(q) \notin KeySet(file.doc.releases.entries)
        /\ Target(p) \in KeySet(file.doc.releases.entries)
        /\ Target(p) \notin KeySet(data[p].releases.entries)

\* C9: a run that fails after open(..., 'w') ends with status 1 and leaves
\* fewer bytes than the document it was writing, never the prior content;
\* a run that ends without reaching the write step leaves the file as it
\* was.
C9_NoRollback ==
    \A p \in Procs :
        /\ (pc[p] = "done" /\ "w" \notin opened[p]) => file = file0
        /\ (pc[p] = "done" /\ "w" \in opened[p] /\ status[p] # 0) =>
              /\ status[p] = 1
              /\ out[p][Len(out[p])] = Traceback
              /\ file.kind # "missing"
              /\ file.len < Size(data[p])
              /\ file # file0

\* a failed write that left the file truncated to no bytes
C9_Witness ==
    \E p \in Procs :
        /\ WriteFailed(p)
        /\ file0.kind = "doc"
        /\ file = Bad(0)

\* the positions in the remaining keys whose key no remaining key exceeds
MaxPositions(p) ==
    {i \in 1..Len(OthersInOrder(p)) :
        \A r \in Others(p) : ~TupleLess(KeyOf(OthersInOrder(p)[i]), KeyOf(r))}

\* C10: when several remaining versions share the greatest key, the new
\* latest is the one of them that comes last in the manifest's key order;
\* it is a remaining key and never the removed version.
C10_LastOfTies ==
    \A p \in Procs :
        Recomputed(p) =>
            /\ file.doc.latest.tag = "str"
            /\ file.doc.latest.val \in Others(p)
            /\ file.doc.latest.val # Target(p)
            /\ \E i \in MaxPositions(p) :
                  /\ \A j \in MaxPositions(p) : j <= i
                  /\ file.doc.latest.val = OthersInOrder(p)[i]

C10_Witness ==
    \E p \in Procs :
        /\ Recomputed(p)
        /\ Keys(Entries0) = <<V010, V190, V10>>
        /\ Target(p) = V190
        /\ file.doc.latest = Str(V10)

====
